---- MODULE Spec2Model ----
(***************************************************************************)
(* The argio attribute macro: the attribute-argument parser                *)
(* (ArgioAttr::parse), the transformer (argio) with its template regex,    *)
(* the identifier rewriter (VarRewriter), and the execution of the         *)
(* function the transformer generates.                                     *)
(*                                                                         *)
(* The repository holds the macro twice: argio-macro/src/lib.rs and        *)
(* src/lib.rs.  The variable crate says which of the two is expanded.      *)
(*                                                                         *)
(* A string is a sequence of one-character strings.                        *)
(***************************************************************************)
EXTENDS Integers, Sequences, FiniteSets, TLC

VARIABLES crate, attrSrc, stage, attr, item, output, pc, ip, cases, iter,
          case_id, log

vars == <<crate, attrSrc, stage, attr, item, output, pc, ip, cases, iter,
          case_id, log>>

(***************************************************************************)
(* Bounds of the model.                                                    *)
(***************************************************************************)
\* longest template enumerated over TemplateChars
MaxLen == 5
\* most pieces an attribute argument list is put together from
MaxChunks == 3
\* largest case count the input facility yields
MaxCases == 2

SeqsUpTo(S, n) == UNION {[1..k -> S] : k \in 0..n}

RECURSIVE Flatten(_)
Flatten(ss) == IF ss = <<>> THEN <<>> ELSE Head(ss) \o Flatten(Tail(ss))

\* position of the first element of s at or after from that lies in set;
\* Len(s) + 1 when there is none
RECURSIVE FirstIn(_, _, _)
FirstIn(s, set, from) ==
    IF from > Len(s) THEN Len(s) + 1
    ELSE IF s[from] \in set THEN from
    ELSE FirstIn(s, set, from + 1)

Contains(s, c) == \E p \in 1..Len(s) : s[p] = c

(***************************************************************************)
(* Tokens of an attribute argument list.                                   *)
(***************************************************************************)
Ident(n) == [t |-> "ident", name |-> n, lit |-> <<>>]
Comma == [t |-> "comma", name |-> ",", lit |-> <<>>]
EqTok == [t |-> "eq", name |-> "=", lit |-> <<>>]
LitStr(s) == [t |-> "str", name |-> "", lit |-> s]
LitInt == [t |-> "int", name |-> "3", lit |-> <<>>]

\* the template multicase without a value stands for: "Case #{i+1}: "
DefaultTemplate ==
    <<"C", "a", "s", "e", " ", "#", "{", "i", "+", "1", "}", ":", " ">>

(***************************************************************************)
(* ArgioAttr and the result of parsing it.                                 *)
(***************************************************************************)
NoneCase == [some |-> FALSE, fmt |-> <<>>, span |-> 0]
SomeCase(s, at) == [some |-> TRUE, fmt |-> s, span |-> at]
NonePath == [some |-> FALSE, path |-> ""]
SomePath(p) == [some |-> TRUE, path |-> p]

EmptyAttr == [multicase |-> NoneCase, input |-> NonePath, output |-> NonePath]

Ok(v, p) == [ok |-> TRUE, val |-> v, pos |-> p]
Err(e) == [ok |-> FALSE, err |-> e]

\* an error of syn's own parsers, at token position at
SynError(m, at) ==
    [kind |-> "syn", msg |-> m, name |-> "", text |-> <<>>, at |-> at]

\* a faulty InvalidAttr: the message without the identifier
InvalidAttrNoName(var, at) ==
    [kind |-> "argio", msg |-> "argio: invalid attr: ", name |-> "",
     text |-> <<>>, at |-> at]

\* syn::Error::new(var.span(), format!("argio: invalid attr: {}", var))
InvalidAttr(var, at) ==
    [kind |-> "argio", msg |-> "argio: invalid attr: ", name |-> var,
     text |-> <<>>, at |-> at]

Peek(toks, p, kind) == p <= Len(toks) /\ toks[p].t = kind

SetMulticase(ret, s, at) == [ret EXCEPT !.multicase = SomeCase(s, at)]

SetInput(ret, path) == [ret EXCEPT !.input = SomePath(path)]

\* a faulty SetOutput: an output already set is kept
SetOutputFirstWins(ret, path) ==
    IF ret.output.some THEN ret ELSE [ret EXCEPT !.output = SomePath(path)]

SetOutput(ret, path) == [ret EXCEPT !.output = SomePath(path)]

\* the loop of ArgioAttr::parse, entered at token position pos
RECURSIVE ParseLoop(_, _, _, _)
ParseLoop(toks, pos, first, ret) ==
    IF ~first /\ ~Peek(toks, pos, "comma") THEN Ok(ret, pos)
    ELSE
      LET p == IF first THEN pos ELSE pos + 1 IN
      IF ~Peek(toks, p, "ident") THEN Ok(ret, p)
      ELSE
        LET var == toks[p].name
            q == p + 1
        IN
        IF var = "multicase" THEN
            IF Peek(toks, q, "eq") THEN
                IF Peek(toks, q + 1, "str")
                THEN ParseLoop(toks, q + 2, FALSE,
                               SetMulticase(ret, toks[q + 1].lit, q + 1))
                ELSE Err(SynError("expected string literal", q + 1))
            ELSE ParseLoop(toks, q, FALSE, SetMulticase(ret, DefaultTemplate, q))
        ELSE IF var = "output" THEN
            IF ~Peek(toks, q, "eq") THEN Err(SynError("expected =", q))
            ELSE IF ~Peek(toks, q + 1, "ident")
            THEN Err(SynError("expected identifier", q + 1))
            ELSE ParseLoop(toks, q + 2, FALSE, SetOutput(ret, toks[q + 1].name))
        ELSE IF var = "input" THEN
            IF ~Peek(toks, q, "eq") THEN Err(SynError("expected =", q))
            ELSE IF ~Peek(toks, q + 1, "ident")
            THEN Err(SynError("expected identifier", q + 1))
            ELSE ParseLoop(toks, q + 2, FALSE, SetInput(ret, toks[q + 1].name))
        ELSE Err(InvalidAttr(var, p))

ParseAttrArgs(toks) == ParseLoop(toks, 1, TRUE, EmptyAttr)

\* a faulty ParseMacroInput: tokens left over are not looked at
ParseMacroInputNoEofCheck(toks) == ParseAttrArgs(toks)

\* parse_macro_input!(attr as ArgioAttr): ArgioAttr::parse, then syn's check
\* that the parser consumed every token
ParseMacroInput(toks) ==
    LET r == ParseAttrArgs(toks) IN
    IF r.ok /\ r.pos <= Len(toks)
    THEN Err(SynError("unexpected token", r.pos))
    ELSE r

(***************************************************************************)
(* The template regex of argio: four groups, the text before the first    *)
(* "{", the expression, the optional ":" with a format spec, and the text  *)
(* after the "}".                                                          *)
(***************************************************************************)
NoCaptures ==
    [matched |-> FALSE, g1 |-> <<>>, g2 |-> <<>>, has3 |-> FALSE,
     g3 |-> <<>>, g4 |-> <<>>]

\* the match once group 2 is known to end before position e
CapturesFrom(s, b, e) ==
    LET close == IF s[e] = "}" THEN e ELSE FirstIn(s, {"}"}, e + 1)
        g4 == SubSeq(s, close + 1, Len(s))
    IN
    IF close > Len(s) THEN NoCaptures
    ELSE IF s[e] = ":" /\ close = e + 1 THEN NoCaptures
    ELSE IF Contains(g4, "\n") THEN NoCaptures
    ELSE [matched |-> TRUE,
          g1 |-> SubSeq(s, 1, b - 1),
          g2 |-> SubSeq(s, b + 1, e - 1),
          has3 |-> s[e] = ":",
          g3 |-> IF s[e] = ":" THEN SubSeq(s, e, close - 1) ELSE <<>>,
          g4 |-> g4]

\* re.captures(&fmt_str): group 1 runs to the first "{", group 2 is the
\* longest run without ":" and "}" and is not empty, group 3 is ":" and the
\* non-empty run up to the next "}", group 4 is the rest, which "." does
\* not match when it holds a line feed
Captures(s) ==
    LET b == FirstIn(s, {"{"}, 1)
        e == FirstIn(s, {":", "}"}, b + 1)
    IN
    IF b > Len(s) \/ e > Len(s) \/ e = b + 1 THEN NoCaptures
    ELSE CapturesFrom(s, b, e)

\* format!("{}{{{}}}{}", &caps[1], caps.get(3)..unwrap_or(""), &caps[4])
Reassemble(caps) == caps.g1 \o <<"{">> \o caps.g3 \o <<"}">> \o caps.g4

(***************************************************************************)
(* syn::parse_str::<syn::Expr>, for the expressions built from             *)
(* identifiers, integer literals, "+", ".", "(" and ")".                   *)
(***************************************************************************)
Letters == {"a", "c", "d", "e", "f", "i", "s", "x", "C", "_"}
Digits == {"0", "1", "3"}
Blanks == {" ", "\n"}
Puncts == {"+", ".", "(", ")"}

\* position of the first element of s at or after from that is not in set
RECURSIVE RunEnd(_, _, _)
RunEnd(s, set, from) ==
    IF from > Len(s) THEN Len(s) + 1
    ELSE IF s[from] \notin set THEN from
    ELSE RunEnd(s, set, from + 1)

ETok(t, s) == [t |-> t, s |-> s]

RECURSIVE Lex(_, _)
Lex(s, p) ==
    IF p > Len(s) THEN <<>>
    ELSE IF s[p] \in Blanks THEN Lex(s, p + 1)
    ELSE IF s[p] \in Letters THEN
        LET e == RunEnd(s, Letters \cup Digits, p) IN
        <<ETok("ident", SubSeq(s, p, e - 1))>> \o Lex(s, e)
    ELSE IF s[p] \in Digits THEN
        LET e == RunEnd(s, Digits, p) IN
        <<ETok("int", SubSeq(s, p, e - 1))>> \o Lex(s, e)
    ELSE IF s[p] \in Puncts THEN <<ETok(s[p], <<s[p]>>)>> \o Lex(s, p + 1)
    ELSE <<ETok("bad", <<s[p]>>)>> \o Lex(s, p + 1)

NoExpr == [k |-> "none"]
POk(e, p) == [ok |-> TRUE, e |-> e, p |-> p]
PFail(p) == [ok |-> FALSE, e |-> NoExpr, p |-> p]
At(ts, p, t) == p <= Len(ts) /\ ts[p].t = t

RECURSIVE PExpr(_, _)
RECURSIVE PPostfix(_, _)
RECURSIVE PTail(_, _, _)
RECURSIVE PBin(_, _, _)
RECURSIVE PArgs(_, _)

PAtom(ts, p) ==
    IF At(ts, p, "ident") THEN POk([k |-> "path", id |-> ts[p].s], p + 1)
    ELSE IF At(ts, p, "int") THEN POk([k |-> "lit", v |-> ts[p].s], p + 1)
    ELSE IF At(ts, p, "(") THEN
        LET r == PExpr(ts, p + 1) IN
        IF r.ok /\ At(ts, r.p, ")")
        THEN POk([k |-> "paren", e |-> r.e], r.p + 1)
        ELSE PFail(p)
    ELSE PFail(p)

\* the arguments of a call, after its "(": none or one expression, then ")"
PArgs(ts, p) ==
    IF At(ts, p, ")") THEN POk(<<>>, p + 1)
    ELSE
        LET r == PExpr(ts, p) IN
        IF r.ok /\ At(ts, r.p, ")") THEN POk(<<r.e>>, r.p + 1) ELSE PFail(p)

PTail(ts, e, p) ==
    IF At(ts, p, ".") THEN
        IF At(ts, p + 1, "ident") THEN
            IF At(ts, p + 2, "(") THEN
                LET a == PArgs(ts, p + 3) IN
                IF a.ok
                THEN PTail(ts, [k |-> "method_call", receiver |-> e,
                                method |-> ts[p + 1].s, args |-> a.e], a.p)
                ELSE PFail(p)
            ELSE PTail(ts, [k |-> "field", base |-> e, named |-> TRUE,
                            member |-> ts[p + 1].s], p + 2)
        ELSE IF At(ts, p + 1, "int") THEN
            PTail(ts, [k |-> "field", base |-> e, named |-> FALSE,
                       member |-> ts[p + 1].s], p + 2)
        ELSE PFail(p)
    ELSE IF At(ts, p, "(") THEN
        LET a == PArgs(ts, p + 1) IN
        IF a.ok
        THEN PTail(ts, [k |-> "call", func |-> e, args |-> a.e], a.p)
        ELSE PFail(p)
    ELSE POk(e, p)

PPostfix(ts, p) ==
    LET a == PAtom(ts, p) IN
    IF a.ok THEN PTail(ts, a.e, a.p) ELSE a

PBin(ts, left, p) ==
    IF At(ts, p, "+") THEN
        LET r == PPostfix(ts, p + 1) IN
        IF r.ok
        THEN PBin(ts, [k |-> "binary", left |-> left, right |-> r.e], r.p)
        ELSE r
    ELSE POk(left, p)

PExpr(ts, p) ==
    LET l == PPostfix(ts, p) IN
    IF l.ok THEN PBin(ts, l.e, l.p) ELSE l

\* syn::parse_str(&caps[2]): the whole text is one expression
ParseStr(s) ==
    LET ts == Lex(s, 1)
        r == PExpr(ts, 1)
    IN
    IF r.ok /\ r.p = Len(ts) + 1 THEN r ELSE PFail(r.p)

(***************************************************************************)
(* VarRewriter, and the walk syn::visit_mut makes over an expression: it   *)
(* calls visit_ident_mut on every syn::Ident of the tree, the segments of  *)
(* a path, the named member of a field access and the method of a method   *)
(* call alike.                                                             *)
(***************************************************************************)
CaseIdIdent == <<"c", "a", "s", "e", "_", "i", "d">>

\* VarRewriter::visit_ident_mut
VisitIdent(i, cid) == IF i = <<"i">> THEN cid ELSE i

RECURSIVE VisitExpr(_, _)
VisitExpr(e, cid) ==
    CASE e.k = "path" -> [e EXCEPT !.id = VisitIdent(e.id, cid)]
      [] e.k = "lit" -> e
      [] e.k = "paren" -> [e EXCEPT !.e = VisitExpr(e.e, cid)]
      [] e.k = "binary" ->
            [e EXCEPT !.left = VisitExpr(e.left, cid),
                      !.right = VisitExpr(e.right, cid)]
      [] e.k = "field" ->
            [e EXCEPT !.base = VisitExpr(e.base, cid),
                      !.member = IF e.named THEN VisitIdent(e.member, cid)
                                 ELSE e.member]
      [] e.k = "method_call" ->
            [e EXCEPT !.receiver = VisitExpr(e.receiver, cid),
                      !.method = VisitIdent(e.method, cid),
                      !.args = [j \in 1..Len(e.args) |-> VisitExpr(e.args[j], cid)]]
      [] e.k = "call" ->
            [e EXCEPT !.func = VisitExpr(e.func, cid),
                      !.args = [j \in 1..Len(e.args) |-> VisitExpr(e.args[j], cid)]]

(***************************************************************************)
(* What print! makes of a format string: "{{" and "}}" stand for one       *)
(* brace, a single "{" opens a placeholder that runs to the next "}", a    *)
(* single "}" is an error.                                                 *)
(***************************************************************************)
\* the number of placeholders of format string s from position p on, or -1
\* when the string is no format string
RECURSIVE FmtScan(_, _)
FmtScan(s, p) ==
    IF p > Len(s) THEN 0
    ELSE IF s[p] = "{" THEN
        IF p < Len(s) /\ s[p + 1] = "{" THEN FmtScan(s, p + 2)
        ELSE
            LET close == FirstIn(s, {"}"}, p + 1)
                inner == SubSeq(s, p + 1, close - 1)
                rest == FmtScan(s, close + 1)
            IN
            IF close > Len(s) THEN -1
            ELSE IF inner # <<>> /\ inner[1] # ":" THEN -1
            ELSE IF rest = -1 THEN -1
            ELSE rest + 1
    ELSE IF s[p] = "}" THEN
        IF p < Len(s) /\ s[p + 1] = "}" THEN FmtScan(s, p + 2) ELSE -1
    ELSE FmtScan(s, p + 1)

\* the text print! writes for a format string without placeholders
RECURSIVE FmtText(_, _)
FmtText(s, p) ==
    IF p > Len(s) THEN <<>>
    ELSE IF s[p] \in {"{", "}"} THEN <<s[p]>> \o FmtText(s, p + 2)
    ELSE <<s[p]>> \o FmtText(s, p + 1)

(***************************************************************************)
(* The transformer.                                                        *)
(***************************************************************************)
Crates == {"argio-macro", "argio"}

ReturnDefault == [default |-> TRUE, ty |-> ""]
ReturnType(ty) == [default |-> FALSE, ty |-> ty]
ReturnTypes ==
    {ReturnDefault, ReturnType("()"), ReturnType("i32"), ReturnType("Vec<usize>")}

\* parse_quote! {()}
UnitType == "()"

\* match ret_type { Default => unit_type, Type(_, ty) => ty }
RetType(out) == IF out.default THEN UnitType ELSE out.ty

\* #wrapper(#ret_var), or #ret_var
Wrapped(a) == [wrapper |-> a.output, var |-> "ret"]

\* a faulty PrintCode: the result is printed whatever its type
PrintCodeAlways(ret_type, wrapped) ==
    <<[op |-> "println", fmt |-> <<"{", "}">>, arg |-> wrapped]>>

\* println!("{}", #wrapped), or nothing for the unit type
PrintCode(ret_type, wrapped) ==
    IF ret_type = UnitType THEN <<>>
    ELSE <<[op |-> "println", fmt |-> <<"{", "}">>, arg |-> wrapped]>>

InputMacro(c, a) ==
    IF a.input.some THEN a.input.path
    ELSE IF c = "argio-macro" THEN "argio::proconio::input"
    ELSE "proconio::input"

Diag(m, text, at) ==
    [kind |-> "argio", msg |-> m, name |-> "", text |-> text, at |-> at]

\* print!(#fmt_str);
LiteralHeader(fmt_str) == [ok |-> TRUE, stmts |-> <<[op |-> "print", fmt |-> fmt_str, args |-> <<>>]>>]

\* the regex, the reassembled format string, the parsed and rewritten
\* argument: print!(#fmt_str, #fmt_arg);
PlaceholderHeader(fmt_str, fmt_span) ==
    LET caps == Captures(fmt_str)
        parsed == ParseStr(caps.g2)
    IN
    IF ~caps.matched
    THEN [ok |-> FALSE, diag |-> Diag("Invalid multicase format", <<>>, fmt_span)]
    ELSE IF ~parsed.ok
    THEN [ok |-> FALSE, diag |-> Diag("{syn error}: {text}", caps.g2, fmt_span)]
    ELSE [ok |-> TRUE,
          stmts |-> <<[op |-> "print", fmt |-> Reassemble(caps),
                       args |-> <<VisitExpr(parsed.e, CaseIdIdent)>>]>>]

\* the header of a case: argio-macro prints a template without "{" as it
\* is, src/lib.rs puts every template through the regex
PrintHeader(c, fmt_str, fmt_span) ==
    IF c = "argio-macro" /\ ~Contains(fmt_str, "{")
    THEN LiteralHeader(fmt_str)
    ELSE PlaceholderHeader(fmt_str, fmt_span)

\* let ret = (|| -> #ret_type { #input_macro!{ #args } #body })();
Closure(input_macro) ==
    <<[op |-> "input", macro |-> input_macro], [op |-> "body"]>>

\* a faulty LoopBody: the header is printed after the closure ran
LoopBodyHeaderLast(print_header, input_macro, print_code) ==
    Closure(input_macro) \o print_header \o print_code

\* the body of for #case_id in 0..cases
LoopBody(print_header, input_macro, print_code) ==
    print_header \o Closure(input_macro) \o print_code

FnItem(multi, input_macro, stmts) ==
    [kind |-> "fn", multicase |-> multi, input_macro |-> input_macro,
     body |-> stmts]

CompileError(d) == [kind |-> "compile_error", diag |-> d]

\* a faulty ToCompileError: a fn is emitted beside the diagnostic
ToCompileErrorKeepFn(d) == <<CompileError(d), FnItem(FALSE, "", <<>>)>>

\* syn::Error::to_compile_error().into(): the whole output of the macro
ToCompileError(d) == <<CompileError(d)>>

\* argio, after its two parse_macro_input!
Expand(c, a, it) ==
    LET print_code == PrintCode(RetType(it.output), Wrapped(a))
        input_macro == InputMacro(c, a)
        header == PrintHeader(c, a.multicase.fmt, a.multicase.span)
    IN
    IF a.multicase.some THEN
        IF header.ok
        THEN <<FnItem(TRUE, input_macro,
                      LoopBody(header.stmts, input_macro, print_code))>>
        ELSE ToCompileError(header.diag)
    ELSE <<FnItem(FALSE, input_macro, Closure(input_macro) \o print_code)>>

\* a faulty LoopContinues: the range 0..=cases
LoopContinuesInclusive(i, n) == i <= n

\* the range 0..cases yields i
LoopContinues(i, n) == i < n

(***************************************************************************)
(* The attribute argument lists and templates the model expands.  An       *)
(* argument list is put together from pieces: whole entries and single     *)
(* tokens.                                                                 *)
(***************************************************************************)
Chunk(toks, opt, path, fmt) ==
    [toks |-> toks, opt |-> opt, path |-> path, fmt |-> fmt]

\* "{i}: "
CustomTemplate == <<"{", "i", "}", ":", " ">>

EMulticase == Chunk(<<Ident("multicase")>>, "multicase", "", DefaultTemplate)
EMulticaseStr(t) ==
    Chunk(<<Ident("multicase"), EqTok, LitStr(t)>>, "multicase", "", t)
EInput(p) == Chunk(<<Ident("input"), EqTok, Ident(p)>>, "input", p, <<>>)
EOutput(p) == Chunk(<<Ident("output"), EqTok, Ident(p)>>, "output", p, <<>>)
Single(tok) == Chunk(<<tok>>, "", "", <<>>)

EntryChunks ==
    {EMulticase, EMulticaseStr(CustomTemplate), EInput("my_input"),
     EOutput("Wrap"), EOutput("Join")}

SingleChunks ==
    {Single(tok) : tok \in {Ident("foo"), Ident("input"), Ident("output"),
                            Ident("Wrap"), Comma, EqTok, LitInt,
                            LitStr(CustomTemplate)}}

AttrChunks == EntryChunks \cup SingleChunks

TemplateChars == {"i", "x", "{", "}", ":", "\n"}

CuratedTemplates ==
    {<<"C", "a", "s", "e", " ", "#", "{", "i", "+", "1", "}", ":", "\n">>,
     <<"C", "a", "s", "e", ":", " ">>,
     <<"{", "x", ".", "i", "}">>,
     <<"{", "x", ".", "i", "(", ")", "}">>,
     <<"{", "i", ".", "x", "}">>,
     <<"{", "f", "(", "i", ")", "}">>,
     <<"{", "i", "+", "1", ":", "0", "3", "}", " ">>,
     <<"{", "i", "+", "}">>,
     <<"a", "{", "i">>}

Templates == SeqsUpTo(TemplateChars, MaxLen) \cup CuratedTemplates

AttrSources ==
    SeqsUpTo(AttrChunks, MaxChunks) \cup {<<EMulticaseStr(t)>> : t \in Templates}

Tokens(src) == Flatten([j \in 1..Len(src) |-> src[j].toks])

(***************************************************************************)
(* The state machine: the expansion of one #[argio(...)] fn, the           *)
(* compilation of what it generates, and the run of the generated fn.      *)
(***************************************************************************)
NotParsed == Err(SynError("", 0))
NoItem == [output |-> ReturnDefault]

Init ==
    /\ crate \in Crates
    /\ attrSrc \in AttrSources
    /\ stage = "source"
    /\ attr = NotParsed
    /\ item = NoItem
    /\ output = <<>>
    /\ pc = "idle"
    /\ ip = 0
    /\ cases = 0
    /\ iter = 0
    /\ case_id = 0
    /\ log = <<>>

\* let attr = parse_macro_input!(attr as ArgioAttr);
ParseAttr ==
    /\ stage = "source"
    /\ attr' = ParseMacroInput(Tokens(attrSrc))
    /\ IF attr'.ok
       THEN stage' = "parsed" /\ output' = output
       ELSE stage' = "failed" /\ output' = ToCompileError(attr'.err)
    /\ UNCHANGED <<crate, attrSrc, item, pc, ip, cases, iter, case_id, log>>

\* the rest of argio: parse_macro_input!(item as syn::ItemFn) reads the fn the
\* attribute stands on, of which the model keeps the return type
Transform ==
    /\ stage = "parsed"
    /\ \E out \in ReturnTypes :
        /\ item' = [output |-> out]
        /\ output' = Expand(crate, attr.val, item')
    /\ stage' = IF output'[1].kind = "fn" THEN "expanded" ELSE "failed"
    /\ UNCHANGED <<crate, attrSrc, attr, pc, ip, cases, iter, case_id, log>>

TheFn == output[1]

HeaderFormatOk(f) ==
    \A j \in 1..Len(f.body) :
        f.body[j].op = "print" =>
            FmtScan(f.body[j].fmt, 1) = Len(f.body[j].args)

\* rustc compiles the generated fn.  Of what can stop it the model keeps the
\* check print! makes of the header's format string
Compile ==
    /\ stage = "expanded"
    /\ IF HeaderFormatOk(TheFn)
       THEN /\ stage' = "run"
            /\ pc' = IF TheFn.multicase THEN "cases" ELSE "body"
            /\ ip' = 1
       ELSE stage' = "rustc_error" /\ UNCHANGED <<pc, ip>>
    /\ UNCHANGED <<crate, attrSrc, attr, item, output, cases, iter, case_id, log>>

Event(kind, k, stmt, text) ==
    [kind |-> kind, case |-> k, stmt |-> stmt, text |-> text]

\* #input_macro! { cases: usize, }
ReadCases ==
    /\ stage = "run" /\ pc = "cases"
    /\ \E n \in 0..MaxCases : cases' = n
    /\ iter' = 0
    /\ pc' = "for"
    /\ log' = Append(log, Event("read_cases", -1,
                                [op |-> "input", macro |-> TheFn.input_macro], <<>>))
    /\ UNCHANGED <<crate, attrSrc, stage, attr, item, output, ip, case_id>>

\* for #case_id in 0..cases
ForNext ==
    /\ stage = "run" /\ pc = "for"
    /\ IF LoopContinues(iter, cases)
       THEN case_id' = iter /\ iter' = iter + 1 /\ pc' = "body" /\ ip' = 1
       ELSE pc' = "done" /\ UNCHANGED <<case_id, iter, ip>>
    /\ UNCHANGED <<crate, attrSrc, stage, attr, item, output, cases, log>>

AtStmt(op) ==
    /\ stage = "run" /\ pc = "body"
    /\ ip <= Len(TheFn.body)
    /\ TheFn.body[ip].op = op

Exec(kind, text) ==
    /\ log' = Append(log, Event(kind, case_id, TheFn.body[ip], text))
    /\ ip' = ip + 1
    /\ UNCHANGED <<crate, attrSrc, stage, attr, item, output, pc, cases, iter,
                   case_id>>

\* print!(#fmt_str) or print!(#fmt_str, #fmt_arg)
RunPrintHeader ==
    /\ AtStmt("print")
    /\ Exec("header", IF TheFn.body[ip].args = <<>>
                      THEN FmtText(TheFn.body[ip].fmt, 1) ELSE <<>>)

\* #input_macro! { #args }
RunInput == AtStmt("input") /\ Exec("read", <<>>)

\* #body
RunBody == AtStmt("body") /\ Exec("body", <<>>)

\* println!("{}", #wrapped)
RunPrintResult == AtStmt("println") /\ Exec("display", <<>>)

\* the end of the loop body, or of the fn
EndBody ==
    /\ stage = "run" /\ pc = "body"
    /\ ip > Len(TheFn.body)
    /\ pc' = IF TheFn.multicase THEN "for" ELSE "done"
    /\ UNCHANGED <<crate, attrSrc, stage, attr, item, output, ip, cases, iter,
                   case_id, log>>

Next ==
    \/ ParseAttr
    \/ Transform
    \/ Compile
    \/ ReadCases
    \/ ForNext
    \/ RunPrintHeader
    \/ RunInput
    \/ RunBody
    \/ RunPrintResult
    \/ EndBody

Spec == Init /\ [][Next]_vars

(***************************************************************************)
(* Vocabulary of the properties.                                           *)
(***************************************************************************)
Expanded == stage \notin {"source", "parsed"}
Multicase == attr.ok /\ attr.val.multicase.some
Template == attr.val.multicase.fmt
DeclaredUnit == item.output.default \/ item.output.ty = "()"

Count(kind) == Cardinality({j \in 1..Len(log) : log[j].kind = kind})
CountIn(kind, k) ==
    Cardinality({j \in 1..Len(log) : log[j].kind = kind /\ log[j].case = k})

\* what one case does, in order
PerCase ==
    <<"header", "read", "body">> \o (IF DeclaredUnit THEN <<>> ELSE <<"display">>)

IsEntry(c) == c.opt # ""
IsComma(c) == c = Single(Comma)
Recognized == {"multicase", "input", "output"}
StartsWithIdent(c) == c.toks[1].t = "ident"
UnknownIdent(c) ==
    ~IsEntry(c) /\ StartsWithIdent(c) /\ c.toks[1].name \notin Recognized

\* the first n pieces are entries with a comma after each
EntriesThenComma(src, n) ==
    /\ n % 2 = 0
    /\ n <= Len(src)
    /\ \A j \in 1..n : IF j % 2 = 1 THEN IsEntry(src[j]) ELSE IsComma(src[j])

\* the first n pieces are entries with commas between them
EntriesUpTo(src, n) ==
    /\ n % 2 = 1
    /\ n <= Len(src)
    /\ \A j \in 1..n : IF j % 2 = 1 THEN IsEntry(src[j]) ELSE IsComma(src[j])

\* entries with commas between them, and possibly one after the last
EntryList(src) ==
    \A j \in 1..Len(src) : IF j % 2 = 1 THEN IsEntry(src[j]) ELSE IsComma(src[j])

\* the position, among the tokens, of the first token of piece j
TokIndex(src, j) == Len(Tokens(SubSeq(src, 1, j - 1))) + 1

\* a token that is no comma follows the entry that piece n is
TrailingAfterEntry(src, n) ==
    /\ EntriesUpTo(src, n)
    /\ n < Len(src)
    /\ ~IsComma(src[n + 1])
    /\ ~(src[n] = EMulticase /\ src[n + 1].toks[1].t = "eq")

\* piece n + 1 is input or output, and no = follows it
MissingEq(src, n) ==
    /\ EntriesThenComma(src, n)
    /\ n < Len(src)
    /\ src[n + 1] \in {Single(Ident("input")), Single(Ident("output"))}
    /\ (n + 2 <= Len(src) => src[n + 2].toks[1].t # "eq")

\* piece n + 1 is input or output, = follows it, and no path follows that
MissingPath(src, n) ==
    /\ EntriesThenComma(src, n)
    /\ n + 2 <= Len(src)
    /\ src[n + 1] \in {Single(Ident("input")), Single(Ident("output"))}
    /\ src[n + 2] = Single(EqTok)
    /\ (n + 3 <= Len(src) => ~StartsWithIdent(src[n + 3]))

EntriesOf(src, opt) == {j \in 1..Len(src) : src[j].opt = opt}
Max(S) == CHOOSE m \in S : \A x \in S : x <= m
LastEntry(src, opt) == src[Max(EntriesOf(src, opt))]

\* the ways to read template t as prefix{expr}suffix or prefix{expr:spec}suffix
Splits(t) ==
    {[prefix |-> SubSeq(t, 1, x[1] - 1),
      expr |-> SubSeq(t, x[1] + 1, x[2] - 1),
      spec |-> SubSeq(t, x[2], x[3] - 1),
      suffix |-> SubSeq(t, x[3] + 1, Len(t))] :
        x \in {y \in (1..Len(t)) \X (1..Len(t)) \X (1..Len(t)) :
                /\ y[1] + 1 < y[2] /\ y[2] <= y[3]
                /\ t[y[1]] = "{" /\ t[y[3]] = "}"
                /\ \A j \in 1..(y[1] - 1) : t[j] # "{"
                /\ \A j \in (y[1] + 1)..(y[2] - 1) : t[j] \notin {":", "}"}
                /\ y[2] < y[3] => (t[y[2]] = ":" /\ y[2] + 1 < y[3])
                /\ \A j \in y[2]..(y[3] - 1) : t[j] # "}"}}

PrintStmts == {j \in 1..Len(TheFn.body) : TheFn.body[j].op = "print"}

\* an expression with the identifier i renamed to cid where it stands as an
\* expression of its own, and nowhere else
RECURSIVE RenameFree(_, _)
RenameFree(e, cid) ==
    CASE e.k = "path" -> [e EXCEPT !.id = IF e.id = <<"i">> THEN cid ELSE e.id]
      [] e.k = "lit" -> e
      [] e.k = "paren" -> [e EXCEPT !.e = RenameFree(e.e, cid)]
      [] e.k = "binary" ->
            [e EXCEPT !.left = RenameFree(e.left, cid),
                      !.right = RenameFree(e.right, cid)]
      [] e.k = "field" -> [e EXCEPT !.base = RenameFree(e.base, cid)]
      [] e.k = "method_call" ->
            [e EXCEPT !.receiver = RenameFree(e.receiver, cid),
                      !.args = [j \in 1..Len(e.args) |-> RenameFree(e.args[j], cid)]]
      [] e.k = "call" ->
            [e EXCEPT !.func = RenameFree(e.func, cid),
                      !.args = [j \in 1..Len(e.args) |-> RenameFree(e.args[j], cid)]]

(***************************************************************************)
(* The properties.                                                         *)
(***************************************************************************)

\* C1: in multicase mode the events of the generated fn come in one order:
\* the read of cases, then for case 0, 1, 2, ... its header print, its
\* parameter read, its body, and its result print when the return type is
\* not unit; no event of a case comes before the last event of the case
\* before it.
C1_StrictOrder ==
    (stage = "run" /\ Multicase) =>
        \A j \in 1..Len(log) :
            IF j = 1 THEN log[j].kind = "read_cases"
            ELSE /\ log[j].kind = PerCase[((j - 2) % Len(PerCase)) + 1]
                 /\ log[j].case = (j - 2) \div Len(PerCase)
                 /\ log[j].case < cases

C1_Witness ==
    /\ pc = "done" /\ Multicase /\ cases = 2 /\ ~DeclaredUnit
    /\ Len(log) = 9
    /\ log[5].kind = "display" /\ log[6].kind = "header" /\ log[6].case = 1

\* C2: in multicase mode cases is read exactly once, before any per-case
\* read, and the loop runs exactly cases times; with cases = 0 the fn
\* reads no parameters and prints nothing.
C2_CasesIterations ==
    (stage = "run" /\ Multicase) =>
        /\ Count("read_cases") <= 1
        /\ log # <<>> => log[1].kind = "read_cases"
        /\ Count("read") <= cases /\ Count("body") <= cases
        /\ pc = "done" =>
            /\ Count("read_cases") = 1
            /\ Count("read") = cases
            /\ Count("body") = cases
            /\ Count("header") = cases
            /\ \A k \in 0..(cases - 1) : CountIn("body", k) = 1
            /\ cases = 0 => Len(log) = 1

C2_Witness ==
    /\ pc = "done" /\ Multicase /\ cases = 2
    /\ Count("read") = 2 /\ Count("read_cases") = 1

\* C3: every executed case displays its result exactly once when the
\* declared return type is not unit, through the wrapper when output is
\* configured and raw otherwise, and never when the return type is unit,
\* left out or written ().
C3_DisplayOncePerCase ==
    stage = "run" =>
        /\ DeclaredUnit => Count("display") = 0
        /\ ~DeclaredUnit =>
            \A k \in 0..cases :
                /\ CountIn("display", k) <= CountIn("body", k)
                /\ (pc \in {"for", "done"} \/ k < case_id) =>
                        CountIn("display", k) = CountIn("body", k)
        /\ \A j \in 1..Len(log) :
            log[j].kind = "display" =>
                /\ log[j].stmt.arg.wrapper = attr.val.output
                /\ log[j].stmt.arg.var = "ret"
                /\ j > 1 /\ log[j - 1].kind = "body"

C3_Witness ==
    /\ pc = "done" /\ ~Multicase /\ ~DeclaredUnit
    /\ attr.val.output = SomePath("Wrap")
    /\ Count("display") = 1 /\ Count("body") = 1

\* C4: an argument list with an entry that begins with an identifier other
\* than multicase, input and output, the entries before it well formed,
\* fails with "argio: invalid attr: <name>" for that identifier and gives
\* no ArgioAttr; the empty list gives the ArgioAttr with nothing set.
C4_InvalidAttr ==
    stage # "source" =>
        /\ \A n \in 0..(Len(attrSrc) - 1) :
            (EntriesThenComma(attrSrc, n) /\ UnknownIdent(attrSrc[n + 1])) =>
                /\ ~attr.ok
                /\ attr.err.msg = "argio: invalid attr: "
                /\ attr.err.name = attrSrc[n + 1].toks[1].name
                /\ attr.err.at = TokIndex(attrSrc, n + 1)
                /\ stage = "failed"
        /\ attrSrc = <<>> => (attr.ok /\ attr.val = EmptyAttr)

C4_Witness ==
    /\ stage = "failed"
    /\ attrSrc = <<EMulticase, Single(Comma), Single(Ident("foo"))>>
    /\ attr.err.name = "foo"

\* C5 as the specification states it: tokens that follow a recognized
\* entry, and input or output without its = value, fail with the message
\* "argio: invalid attr: <name>".
C5_Original ==
    stage # "source" =>
        \A n \in 0..Len(attrSrc) :
            (\/ TrailingAfterEntry(attrSrc, n)
             \/ MissingEq(attrSrc, n)
             \/ MissingPath(attrSrc, n)) =>
                (~attr.ok /\ attr.err.msg = "argio: invalid attr: ")

\* C5, amended: such a list fails, with the error of syn at the offending
\* token (unexpected token, expected =, expected identifier); the message
\* "argio: invalid attr: <name>" is only ever given for an identifier other
\* than multicase, input and output, at that identifier.
C5_SynErrors ==
    stage # "source" =>
        /\ \A n \in 0..Len(attrSrc) :
            /\ TrailingAfterEntry(attrSrc, n) =>
                /\ ~attr.ok /\ stage = "failed"
                /\ attr.err.kind = "syn" /\ attr.err.msg = "unexpected token"
                /\ attr.err.at = TokIndex(attrSrc, n + 1)
            /\ MissingEq(attrSrc, n) =>
                /\ ~attr.ok /\ stage = "failed"
                /\ attr.err.kind = "syn" /\ attr.err.msg = "expected ="
                /\ attr.err.at = TokIndex(attrSrc, n + 2)
            /\ MissingPath(attrSrc, n) =>
                /\ ~attr.ok /\ stage = "failed"
                /\ attr.err.kind = "syn" /\ attr.err.msg = "expected identifier"
                /\ attr.err.at = TokIndex(attrSrc, n + 3)
        /\ (~attr.ok /\ attr.err.msg = "argio: invalid attr: ") =>
            /\ attr.err.at <= Len(Tokens(attrSrc))
            /\ Tokens(attrSrc)[attr.err.at].t = "ident"
            /\ Tokens(attrSrc)[attr.err.at].name = attr.err.name
            /\ attr.err.name \notin Recognized

C5_Witness ==
    /\ stage = "failed"
    /\ attrSrc = <<EOutput("Wrap"), Single(LitInt)>>
    /\ attr.err.msg = "unexpected token"

\* C6 as the specification states it: a list the parser accepts holds each
\* of multicase, input and output at most once.
C6_Original ==
    (stage # "source" /\ EntryList(attrSrc) /\ attr.ok) =>
        \A opt \in Recognized : Cardinality(EntriesOf(attrSrc, opt)) <= 1

\* C6, amended: the parser accepts a list of entries whether or not an
\* option is repeated, and each field is set by the last entry of its
\* option (none: the field is absent); so entries of different options
\* give the same result in any order.
C6_LastWins ==
    (stage # "source" /\ EntryList(attrSrc)) =>
        /\ attr.ok
        /\ attr.val.output =
            IF EntriesOf(attrSrc, "output") = {} THEN NonePath
            ELSE SomePath(LastEntry(attrSrc, "output").path)
        /\ attr.val.input =
            IF EntriesOf(attrSrc, "input") = {} THEN NonePath
            ELSE SomePath(LastEntry(attrSrc, "input").path)
        /\ attr.val.multicase.some = (EntriesOf(attrSrc, "multicase") # {})
        /\ attr.val.multicase.fmt =
            IF EntriesOf(attrSrc, "multicase") = {} THEN <<>>
            ELSE LastEntry(attrSrc, "multicase").fmt

C6_Witness ==
    /\ stage # "source" /\ attr.ok
    /\ attrSrc = <<EOutput("Wrap"), Single(Comma), EOutput("Join")>>
    /\ attr.val.output = SomePath("Join")

\* C7 as the specification states it: a template without "{" is accepted,
\* the header is printed without an argument, and every header print
\* writes exactly the template.
C7_LiteralTemplate ==
    (Expanded /\ Multicase /\ ~Contains(Template, "{")) =>
        /\ stage # "failed"
        /\ output[1].kind = "fn"
        /\ \A j \in PrintStmts : TheFn.body[j].args = <<>>
        /\ \A j \in 1..Len(log) :
            log[j].kind = "header" => log[j].text = Template

\* C8 as the specification states it: the argument of the header print is
\* the expression of the template with i renamed where it stands as an
\* expression of its own, and with every other identifier, the names of
\* fields and methods among them, left as written.
C8_RenameOnlyFreeStanding ==
    (Expanded /\ Multicase /\ stage # "failed") =>
        \A j \in PrintStmts :
            TheFn.body[j].args # <<>> =>
                TheFn.body[j].args[1] =
                    RenameFree(ParseStr(Captures(Template).g2).e, CaseIdIdent)

\* C9 as the specification states it: for a template prefix{expr}suffix or
\* prefix{expr:spec}suffix whose expr is an expression, the format string
\* of the header print is prefix{}suffix or prefix{:spec}suffix, and expr
\* is its one argument.
C9_RoundTrip ==
    (Expanded /\ Multicase) =>
        \A sp \in Splits(Template) :
            ParseStr(sp.expr).ok =>
                /\ stage # "failed"
                /\ \A j \in PrintStmts :
                    /\ TheFn.body[j].fmt =
                        sp.prefix \o <<"{">> \o sp.spec \o <<"}">> \o sp.suffix
                    /\ Len(TheFn.body[j].args) = 1

\* C10: a failed expansion gives the diagnostic and nothing else.  A
\* template with "{" that is not of the shape prefix{expr[:spec]}suffix
\* gives "Invalid multicase format"; an extracted expression that does not
\* parse gives the message of the parser and the text; a failed attribute
\* parse gives its error.
C10_AllOrNothing ==
    /\ stage = "failed" =>
        /\ Len(output) = 1
        /\ output[1].kind = "compile_error"
        /\ ~attr.ok => output[1].diag = attr.err
    /\ ~attr.ok => (stage \in {"source", "failed"})
    /\ (Expanded /\ Multicase /\ Contains(Template, "{")) =>
        /\ Splits(Template) = {} =>
            /\ stage = "failed"
            /\ output[1].diag.msg = "Invalid multicase format"
            /\ output[1].diag.at = attr.val.multicase.span
        /\ (Captures(Template).matched /\ ~ParseStr(Captures(Template).g2).ok) =>
            /\ stage = "failed"
            /\ output[1].diag.msg = "{syn error}: {text}"
            /\ output[1].diag.text = Captures(Template).g2
            /\ output[1].diag.at = attr.val.multicase.span
            /\ \E sp \in Splits(Template) : sp.expr = output[1].diag.text

C10_Witness ==
    /\ stage = "failed" /\ Multicase
    /\ Template = <<"{", "i", ":", "}">>
    /\ output[1].diag.msg = "Invalid multicase format"

====
